---- MODULE Spec2Model ----
(***************************************************************************)
(* KinHotel data platform: incremental extraction from the PMS API.        *)
(*                                                                         *)
(*   - the watermark store            (src/utils/state_manager.py)         *)
(*   - the window resolver and the multi-branch extraction coordinator     *)
(*                                    (core/pms/pms_extractor.py)          *)
(*   - the HTTP GET with manual retry and the pagination loop              *)
(*                                    (clients/pms_client.py)              *)
(*   - the SCD type 2 history         (core/historical_processor.py)       *)
(*   - the booking pipeline and its run report                             *)
(*                                    (orchestration/booking_pipeline.py,  *)
(*                                     main.py)                            *)
(*   - the dimension extractor        (pipelines/dimensions/extractor.py)  *)
(*                                                                         *)
(* Time is counted in units of 15 minutes, relative to INITIAL_START_DATE  *)
(* (2023-06-01T00:00Z), so that the 15 minute safety margin is one unit    *)
(* and a day is 96 units.                                                  *)
(***************************************************************************)
EXTENDS Integers, Sequences, FiniteSets, TLC

VARIABLES
    \* ---- the clock and the watermark store (src/cache/extraction_state.json)
    clock,        \* datetime.now(timezone.utc), in units since INITIAL_START_DATE
    fileExists,   \* CACHE_FILE.exists()
    fileState,    \* the JSON object of the file: key -> ISO text, or NoEntry
    \* ---- one extract_multi_branch call
    run,          \* the arguments of the call in progress, or NoRun
    pc,           \* per branch: position of its _run_one task
    dw,           \* per branch: the DateWindow its task resolved
    results,      \* the results dict of the call
    fault,        \* per branch: what went wrong in its task ("none" if nothing)
    returned,     \* the map the last finished call returned, or NotReturned
    before,       \* the stored watermarks when the call in progress started
    runsDone,     \* finished calls
    \* ---- one _build_window_from_state call on drawn inputs
    wIn,          \* the inputs: field, lookback_days, now, stored watermark
    wOut,         \* the DateWindow returned, the exception raised, or NotCalled
    \* ---- one PMSClient.get_json call
    gCfg,         \* retry configuration of the client
    gPc,          \* "request", "sleeping", "returned", "raised"
    attempt,      \* the local variable attempt
    requests,     \* HTTP requests issued so far
    response,     \* the last response received, or None
    sleeps,       \* the asyncio.sleep calls made: <<attempt, cause, seconds>>
    gOutcome,     \* the value returned or the exception raised, or NoOutcome
    \* ---- one PMSClient.paginate_json call
    pPc,          \* "page", "pausing", "returned", "raised"
    limit,        \* the local variable limit (the requested page size)
    page,         \* the local variable page
    all_records,  \* the local variable all_records; a record is <<page, index>>
    pLast,        \* the answer to the last get_json call, or None
    \* ---- the history file of one (dataset, branch) and its processor
    history,      \* the rows of the latest *_history.parquet, or None
    hPc,          \* "ready", or "processed" while the last call can be inspected
    as_of,        \* self.now_utc of the last HistoricalProcessor built
    staging,      \* the rows of the staging file the last call read
    latest_staging_df,  \* the local of that name: the snapshot it diffed
    prev_hist_df, \* the history file it read, or None
    hResult,      \* the status of its ProcessingResult
    \* ---- calls of the state manager on their own
    smCall,       \* the last call: its arguments, what its file accesses met
                  \* and what it returned; n counts the calls
    smSaved,      \* per key: the timestamp of the last save that wrote the file
    \* ---- main() running the booking pipeline
    pipe,         \* the position and the locals of run_booking_pipeline
    report,       \* the report dict of the run in progress
    outbox,       \* the reports handed to the EmailNotifier, oldest first
    \* ---- DimensionExtractor.extract_multi_branch
    dim           \* the call in progress, its tasks, the shared data cache of
                  \* the extractor and what the last call returned

coordVars == <<clock, fileExists, fileState, run, pc, dw, results, fault,
               returned, before, runsDone>>
windowVars == <<wIn, wOut>>
getVars == <<gCfg, gPc, attempt, requests, response, sleeps, gOutcome>>
pageVars == <<pPc, limit, page, all_records, pLast>>
histVars == <<history, hPc, as_of, staging, latest_staging_df, prev_hist_df,
              hResult>>
storeVars == <<smCall, smSaved>>
pipeVars == <<pipe, report, outbox>>
dimVars == <<dim>>
vars == <<coordVars, windowVars, getVars, pageVars, histVars, storeVars, pipeVars,
          dimVars>>

----------------------------------------------------------------------------
(* Bounds of the model *)

MaxRuns == 2         \* extract_multi_branch calls in one behaviour
MaxTicks == 1        \* clock advances in one behaviour
MaxPages == 3        \* pages requested in one paginate_json call
MaxSnapshots == 3    \* HistoricalProcessor.process calls in one behaviour

----------------------------------------------------------------------------
(* Time *)

Epoch == 0           \* INITIAL_START_DATE = datetime(2023, 6, 1, tzinfo=utc)
Day == 96            \* timedelta(days=1)
SafetyMargin == 1    \* timedelta(minutes=15)
DaysSinceMin == 738671
    \* (INITIAL_START_DATE - datetime.min).days: a datetime below year 1
    \* cannot be represented and the subtraction raises OverflowError
DatetimeMin == Epoch - DaysSinceMin * Day

\* A datetime: wall-clock reading, and for an aware one its UTC offset.
Aware(wall, off) == [wall |-> wall, aware |-> TRUE, off |-> off]
Naive(wall) == [wall |-> wall, aware |-> FALSE, off |-> 0]
Utc(instant) == Aware(instant, 0)
Instant(dt) == dt.wall - dt.off

\* Optional values: None, or Some(x).
None == <<>>
Some(x) == <<x>>
IsSome(o) == o # <<>>
Get(o) == o[1]

\* datetime.astimezone(timezone.utc): the same instant read in UTC.  A naive
\* datetime is taken to be in the host's local zone.
HostOffset == 0
AsTimezoneUtc(dt) ==
    IF dt.aware THEN Utc(dt.wall - dt.off) ELSE Utc(dt.wall - HostOffset)

\* datetime.isoformat(): the wall-clock reading followed, for an aware
\* datetime, by its offset ("+00:00").
IsoFormat(dt) == [text |-> dt.wall, suffix |-> IF dt.aware THEN <<dt.off>> ELSE <<>>]

\* datetime.fromisoformat()
FromIsoFormat(s) ==
    IF s.suffix = <<>> THEN Naive(s.text) ELSE Aware(s.text, s.suffix[1])

\* A datetime minus a timedelta: same zone, OverflowError below datetime.min.
Overflows(dt, delta) == dt.wall - delta < DatetimeMin
MinusAdds(dt, delta) == [dt EXCEPT !.wall = dt.wall + delta]
Minus(dt, delta) == [dt EXCEPT !.wall = dt.wall - delta]

----------------------------------------------------------------------------
(* The watermark store: src/utils/state_manager.py *)

Endpoint == "bookings"
Fields == {"check_in", "created_date", "last_updated", "create"}
RollingFieldsCheckInOnly == {"check_in"}
RollingFields == {"check_in", "created_date"}
\* Three of the branches of TOKEN_BRANCH_MAP.
Branches == {1, 2, 3}

SourceKey(endpoint, field) == <<endpoint, field>>
Keys == {<<SourceKey(Endpoint, f), b>> : f \in Fields, b \in Branches}
EmptyState == [k \in Keys |-> None]

\* load_last_run_timestamp(source, branch_id)
load_last_run_timestamp(exists, state, source, branch_id) ==
    IF ~exists THEN None
    ELSE LET timestamp_str == state[<<source, branch_id>>]
         IN  IF IsSome(timestamp_str)
             THEN LET dt == FromIsoFormat(Get(timestamp_str))
                  IN  Some(IF dt.aware THEN dt ELSE Aware(dt.wall, 0))
             ELSE None

\* A save that does not read the file first: it writes its own key only.
save_last_run_timestamp_own_key(exists, state, source, branch_id, timestamp) ==
    [EmptyState EXCEPT ![<<source, branch_id>>] =
                           Some(IsoFormat(AsTimezoneUtc(timestamp)))]
\* save_last_run_timestamp(source, branch_id, timestamp): the state written
\* back to the file (the file exists afterwards).
save_last_run_timestamp(exists, state, source, branch_id, timestamp) ==
    LET old == IF exists THEN state ELSE EmptyState
    IN  [old EXCEPT ![<<source, branch_id>>] =
                        Some(IsoFormat(AsTimezoneUtc(timestamp)))]

\* The watermark a reader of the store sees for a key.
Watermark(field, b) ==
    load_last_run_timestamp(fileExists, fileState, SourceKey(Endpoint, field), b)

----------------------------------------------------------------------------
(* The window resolver: PMSExtractor._build_window_from_state *)

DateWindowSwapped(start, end, field) ==
    [kind |-> "window", start |-> end, end |-> start, field |-> field, tz |-> "ICT"]
DateWindow(start, end, field) ==
    [kind |-> "window", start |-> start, end |-> end, field |-> field, tz |-> "ICT"]
Raise(error) == [kind |-> "raise", error |-> error]

\* The resolver with the strategy chosen before the store is looked at.
build_window_strategy_first(exists, state, now, field, branch_id, lookback_days) ==
    LET source_key == SourceKey(Endpoint, field)
        now_utc == Utc(now)
        last_run_utc == load_last_run_timestamp(exists, state, source_key, branch_id)
    IN  IF field \in RollingFields
        THEN IF Overflows(now_utc, lookback_days * Day)
             THEN Raise("OverflowError")
             ELSE DateWindow(Minus(now_utc, lookback_days * Day), now_utc, field)
        ELSE IF ~IsSome(last_run_utc)
             THEN DateWindow(Utc(Epoch), now_utc, field)
             ELSE DateWindow(Minus(Get(last_run_utc), SafetyMargin), now_utc, field)

build_window_from_state(exists, state, now, field, branch_id, lookback_days) ==
    LET source_key == SourceKey(Endpoint, field)
        now_utc == Utc(now)
        last_run_utc == load_last_run_timestamp(exists, state, source_key, branch_id)
    IN  IF ~IsSome(last_run_utc)
        THEN DateWindow(Utc(Epoch), now_utc, field)
        ELSE IF field \in RollingFields
             THEN IF Overflows(now_utc, lookback_days * Day)
                  THEN Raise("OverflowError")
                  ELSE DateWindow(Minus(now_utc, lookback_days * Day), now_utc, field)
             ELSE DateWindow(Minus(Get(last_run_utc), SafetyMargin), now_utc, field)

----------------------------------------------------------------------------
(* ExtractionResult and PMSExtractor.extract_async *)

ExtractionResult(data, branch_id, status, error) ==
    [data |-> data, branch_id |-> branch_id, status |-> status, error |-> error]

\* ExtractionResult.is_success
is_success_any_status(res) == TRUE
is_success(res) == res.status = "success" /\ res.error = None

\* extract_async(branch_id, date_window, **kwargs).  fetch is what get_session
\* and _perform_extraction did: "ok" (records came back) or "raise".
\* kwargs_ok tells whether the caller's extra keyword arguments are fields of
\* ExtractionResult; if not, building the result raises TypeError, in the try
\* block and again in the except block, and the TypeError leaves extract_async.
extract_async(branch_id, fetch, kwargs_ok) ==
    IF ~kwargs_ok THEN Raise("TypeError")
    ELSE IF fetch = "ok"
         THEN [kind |-> "result",
               res |-> ExtractionResult(Some("records"), branch_id, "success", None)]
         ELSE [kind |-> "result",
               res |-> ExtractionResult(None, branch_id, "error", Some("fetch failed"))]

----------------------------------------------------------------------------
(* The coordinator: PMSExtractor.extract_multi_branch *)

NoRun == [active |-> FALSE]
ClockStart == Epoch + 1000 * Day

\* The tasks inside "async with sem".
InFlightLeakOnError ==
    {b \in Branches : pc[b] = "fetching"
                         \/ (pc[b] = "done" /\ Get(results[b]).status = "error")}
InFlight == {b \in Branches : pc[b] = "fetching"}

\* asyncio.Semaphore(max_concurrent): a task enters while a slot is free.
SemFreeOffByOne == Cardinality(InFlight) <= run.max_concurrent
SemFree == Cardinality(InFlight) < run.max_concurrent

\* The dict the call returns: one entry per task that stored a result.
ResultsOfSuccesses(res) ==
    [b \in {x \in Branches : IsSome(res[x]) /\ Get(res[x]).status = "success"} |->
        Get(res[b])]
ResultsDict(res) == [b \in {x \in Branches : IsSome(res[x])} |-> Get(res[b])]

\* The call starts: the semaphore and the empty results dict are created and
\* one _run_one task per branch id is handed to asyncio.gather.
StartRun(field, branch_ids, lookback_days, max_concurrent, kwargs_ok) ==
    /\ ~run.active
    /\ runsDone < MaxRuns
    /\ run' = [active |-> TRUE, field |-> field, branch_ids |-> branch_ids,
               lookback_days |-> lookback_days, max_concurrent |-> max_concurrent,
               kwargs_ok |-> kwargs_ok]
    /\ pc' = [b \in Branches |-> IF b \in branch_ids THEN "waiting" ELSE "none"]
    /\ dw' = [b \in Branches |-> None]
    /\ results' = [b \in Branches |-> None]
    /\ fault' = [b \in Branches |-> "none"]
    /\ returned' = None
    /\ before' = [b \in Branches |-> Watermark(field, b)]
    /\ UNCHANGED <<clock, fileExists, fileState, runsDone>>
    /\ UNCHANGED <<windowVars, getVars, pageVars, histVars, storeVars, pipeVars,
                   dimVars>>

\* _run_one(bid) enters the semaphore and resolves its window; it then awaits
\* the jitter sleep and, in extract_async, the network.  Between those two
\* awaits the task touches nothing the other tasks see, so they are one
\* position, "fetching".  An exception of the resolver is caught by _run_one,
\* which records an error result and leaves the semaphore.
Acquire(bid) ==
    /\ run.active
    /\ pc[bid] = "waiting"
    /\ SemFree
    /\ LET w == build_window_from_state(fileExists, fileState, clock, run.field,
                                        bid, run.lookback_days)
       IN  IF w.kind = "raise"
           THEN /\ results' = [results EXCEPT ![bid] =
                       Some(ExtractionResult(None, bid, "error", Some(w.error)))]
                /\ fault' = [fault EXCEPT ![bid] = "window"]
                /\ pc' = [pc EXCEPT ![bid] = "done"]
                /\ UNCHANGED dw
           ELSE /\ dw' = [dw EXCEPT ![bid] = Some(w)]
                /\ pc' = [pc EXCEPT ![bid] = "fetching"]
                /\ UNCHANGED <<results, fault>>
    /\ UNCHANGED <<clock, fileExists, fileState, run, returned, before, runsDone>>
    /\ UNCHANGED <<windowVars, getVars, pageVars, histVars, storeVars, pipeVars,
                   dimVars>>

\* The fetch of bid ends (fetch = "ok" or "raise"); the rest of _run_one runs
\* without an await: the result is stored, the watermark saved on success,
\* the semaphore left.
FetchReturn(bid, fetch) ==
    /\ run.active
    /\ pc[bid] = "fetching"
    /\ fault' = [fault EXCEPT ![bid] = IF ~run.kwargs_ok THEN "kwargs"
                                        ELSE IF fetch = "raise" THEN "fetch"
                                        ELSE "none"]
    /\ LET r == extract_async(bid, fetch, run.kwargs_ok)
       IN  IF r.kind = "raise"
           THEN /\ results' = [results EXCEPT ![bid] =
                       Some(ExtractionResult(None, bid, "error", Some(r.error)))]
                /\ UNCHANGED <<fileExists, fileState>>
           ELSE /\ results' = [results EXCEPT ![bid] = Some(r.res)]
                /\ IF is_success(r.res)
                   THEN /\ fileState' = save_last_run_timestamp(fileExists, fileState,
                               SourceKey(Endpoint, run.field), bid, Get(dw[bid]).end)
                        /\ fileExists' = TRUE
                   ELSE UNCHANGED <<fileExists, fileState>>
    /\ pc' = [pc EXCEPT ![bid] = "done"]
    /\ UNCHANGED <<clock, run, dw, returned, before, runsDone>>
    /\ UNCHANGED <<windowVars, getVars, pageVars, histVars, storeVars, pipeVars,
                   dimVars>>

\* asyncio.gather is over: every task has ended, the results dict is returned
\* and the call's locals are gone.
Return ==
    /\ run.active
    /\ \A b \in run.branch_ids : pc[b] = "done"
    /\ returned' = Some([requested |-> run.branch_ids, map |-> ResultsDict(results)])
    /\ run' = NoRun
    /\ pc' = [b \in Branches |-> "none"]
    /\ dw' = [b \in Branches |-> None]
    /\ results' = [b \in Branches |-> None]
    /\ before' = [b \in Branches |-> None]
    /\ runsDone' = runsDone + 1
    /\ UNCHANGED <<clock, fileExists, fileState, fault>>
    /\ UNCHANGED <<windowVars, getVars, pageVars, histVars, storeVars, pipeVars,
                   dimVars>>

\* Time passes while the call is in progress.  The clock is read by the
\* window resolver only, so it is advanced while a task has yet to resolve.
Tick ==
    /\ run.active
    /\ \E b \in Branches : pc[b] = "waiting"
    /\ clock < ClockStart + MaxTicks
    /\ clock' = clock + 1
    /\ UNCHANGED <<fileExists, fileState, run, pc, dw, results, fault,
                   returned, before, runsDone>>
    /\ UNCHANGED <<windowVars, getVars, pageVars, histVars, storeVars, pipeVars,
                   dimVars>>

----------------------------------------------------------------------------
(* PMSClient.get_json: HTTP GET with manual retry *)

MaxAttempts == 3     \* largest RETRY_MAX_ATTEMPTS tried

retry_status_codes == {429, 500, 502, 503, 504}
non_retry_status_codes == {401, 403}

Statuses == {200, 401, 403, 404, 429, 500}

\* What the code looks at in a response body:
\*   brace    text.strip().startswith("{")
\*   doctype  text.lstrip().startswith("<!DOCTYPE")
\*   json     json.loads(text) succeeds
Body(name, brace, doctype, json) ==
    [name |-> name, brace |-> brace, doctype |-> doctype, json |-> json]
Bodies ==
    { Body("json object", TRUE, FALSE, TRUE),     \* {"error": "ACCESS_ERROR"}
      Body("json array", FALSE, FALSE, TRUE),     \* []
      Body("broken object", TRUE, FALSE, FALSE),  \* {"data": [
      Body("doctype page", FALSE, TRUE, FALSE),   \* <!DOCTYPE html>...
      Body("other text", FALSE, FALSE, FALSE) }   \* <html>..., Forbidden, empty

\* The Retry-After header: absent, an integer of seconds, or an HTTP date
\* (here a date 30 seconds ahead); seconds is the delay the header asks for.
RetryAfters == {None, Some([int |-> TRUE, seconds |-> 1]),
                Some([int |-> TRUE, seconds |-> 60]),
                Some([int |-> FALSE, seconds |-> 30])}

HttpResponses ==
    [kind : {"http"}, status : Statuses, body : Bodies, retry_after : RetryAfters]
NetworkError ==
    [kind |-> "error", status |-> 0, body |-> Body("none", FALSE, FALSE, FALSE),
     retry_after |-> None]
\* Retry-After is read for a status of the retry set only: elsewhere one value
\* stands for all.
Responses ==
    {r \in HttpResponses : r.status \notin retry_status_codes => r.retry_after = None}
        \cup {NetworkError}

Configs == [retry_max_attempts : 1 .. MaxAttempts,
            retry_wait_multiplier : {1, 3},
            retry_max_wait : {3, 10}]

Min(a, b) == IF a <= b THEN a ELSE b

\* An exponential backoff without the cap.
BackoffUncapped(cfg, n) == cfg.retry_wait_multiplier * 2 ^ (n - 1)
\* min(retry_wait_multiplier * 2 ** (attempt - 1), retry_max_wait)
Backoff(cfg, n) == Min(cfg.retry_wait_multiplier * 2 ^ (n - 1), cfg.retry_max_wait)

\* min(2 * attempt, retry_max_wait)
WafDelay(cfg, n) == Min(2 * n, cfg.retry_max_wait)

Sleep(cause, seconds) == [next |-> "sleep", cause |-> cause, seconds |-> seconds]
Throw(error) == [next |-> "raise", error |-> error]
Give(status) == [next |-> "return", status |-> status]

\* A get_json whose network-error branch allows one request more than the
\* budget (attempt > retry_max_attempts).
get_json_turn_one_more(cfg, n, resp) ==
    IF resp.kind = "error"
    THEN IF n > cfg.retry_max_attempts
         THEN Throw("ClientError")
         ELSE Sleep("network", Backoff(cfg, n))
    ELSE IF resp.status \in non_retry_status_codes /\ resp.body.brace
    THEN Throw("PermissionError")
    ELSE IF resp.status = 403 /\ resp.body.doctype
    THEN IF n >= cfg.retry_max_attempts
         THEN Throw("PermissionError: 403 (WAF) after retries")
         ELSE Sleep("waf", WafDelay(cfg, n))
    ELSE IF resp.status \in retry_status_codes
    THEN IF n >= cfg.retry_max_attempts
         THEN Throw("RuntimeError: HTTP status after retries")
         ELSE IF IsSome(resp.retry_after) /\ Get(resp.retry_after).int
              THEN Sleep("server", Get(resp.retry_after).seconds)
              ELSE Sleep("server", Backoff(cfg, n))
    ELSE IF resp.body.json
    THEN Give(resp.status)
    ELSE Throw("RuntimeError: Non-JSON response")

\* One turn of the while loop of get_json, with attempt already incremented
\* to n, on the response resp of session.get.
get_json_turn(cfg, n, resp) ==
    IF resp.kind = "error"
    THEN IF n >= cfg.retry_max_attempts
         THEN Throw("ClientError")
         ELSE Sleep("network", Backoff(cfg, n))
    ELSE IF resp.status \in non_retry_status_codes /\ resp.body.brace
    THEN Throw("PermissionError")
    ELSE IF resp.status = 403 /\ resp.body.doctype
    THEN IF n >= cfg.retry_max_attempts
         THEN Throw("PermissionError: 403 (WAF) after retries")
         ELSE Sleep("waf", WafDelay(cfg, n))
    ELSE IF resp.status \in retry_status_codes
    THEN IF n >= cfg.retry_max_attempts
         THEN Throw("RuntimeError: HTTP status after retries")
         ELSE IF IsSome(resp.retry_after) /\ Get(resp.retry_after).int
              THEN Sleep("server", Get(resp.retry_after).seconds)
              ELSE Sleep("server", Backoff(cfg, n))
    ELSE IF resp.body.json
    THEN Give(resp.status)
    ELSE Throw("RuntimeError: Non-JSON response")

NoOutcome == [next |-> "none"]

\* attempt += 1; session.get(url); the response is classified.
SendRequest(resp) ==
    /\ gPc = "request"
    /\ attempt' = attempt + 1
    /\ requests' = requests + 1
    /\ response' = Some(resp)
    /\ LET t == get_json_turn(Get(gCfg), attempt + 1, resp)
       IN  IF t.next = "sleep"
           THEN /\ sleeps' = Append(sleeps, <<attempt + 1, t.cause, t.seconds>>)
                /\ gPc' = "sleeping"
                /\ UNCHANGED gOutcome
           ELSE /\ gOutcome' = t
                /\ gPc' = IF t.next = "raise" THEN "raised" ELSE "returned"
                /\ UNCHANGED sleeps
    /\ UNCHANGED gCfg
    /\ UNCHANGED <<coordVars, windowVars, pageVars, histVars, storeVars, pipeVars,
                   dimVars>>

\* asyncio.sleep(sleep_s) is over: continue with the next turn of the loop.
SleepOver ==
    /\ gPc = "sleeping"
    /\ gPc' = "request"
    /\ UNCHANGED <<gCfg, attempt, requests, response, sleeps, gOutcome>>
    /\ UNCHANGED <<coordVars, windowVars, pageVars, histVars, storeVars, pipeVars,
                   dimVars>>

----------------------------------------------------------------------------
(* PMSClient.paginate_json: the pages of one endpoint, one after the other *)

\* limit = int(base_params.get("limit", limit_default)), for small page sizes.
PageLimits == {1, 2}
\* The number of records the server puts in the "data" list of an answer
\* (it may send more than the page size asked for).
PageCounts == {0, 1, 2}

\* A key of the "pagination" object: absent, an integer, or a value that
\* int() rejects (null, "many").
Absent == [kind |-> "absent", v |-> 0]
IntValue(n) == [kind |-> "int", v |-> n]
BadValue == [kind |-> "bad", v |-> 0]
PaginationBlocks ==
    [total : {Absent, BadValue, IntValue(1), IntValue(3), IntValue(4)},
     limit : {Absent, IntValue(1), IntValue(2)},
     page : {Absent, IntValue(1), IntValue(2), IntValue(3)}]
\* No "pagination" key, or null, or {}: each key is absent.
NoBlock == [total |-> Absent, limit |-> Absent, page |-> Absent]

\* What json.loads gives for the body of an answer.
Envelope(n, pag) == [shape |-> "object", count |-> n, pagination |-> pag]
Array(n) == [shape |-> "array", count |-> n, pagination |-> NoBlock]
NoContent == [shape |-> "none", count |-> 0, pagination |-> NoBlock]

\* The last response of a get_json call: one that is not retried, or any
\* response to the last attempt.
LastAttempt ==
    [retry_max_attempts |-> MaxAttempts, retry_wait_multiplier |-> 1,
     retry_max_wait |-> 10]
get_json(resp) == get_json_turn(LastAttempt, LastAttempt.retry_max_attempts, resp)

\* The content of a body is read only when the text is JSON and the status
\* is not one that raises before json.loads; elsewhere one value stands for all.
Contents(resp) ==
    IF resp.kind = "http" /\ resp.body.json
          /\ resp.status \notin retry_status_codes
          /\ ~(resp.status \in non_retry_status_codes /\ resp.body.brace)
    THEN IF resp.body.brace
         THEN {Envelope(n, pag) : n \in PageCounts, pag \in PaginationBlocks}
         ELSE {Array(0), Array(1)}
    ELSE {NoContent}

PageAnswers ==
    UNION { {[resp |-> r, content |-> c] : c \in Contents(r)} :
            r \in {x \in Responses : x.retry_after = None} }

\* The records of the "data" list of the answer to the request for page pg.
Records(pg, n) == [i \in 1 .. n |-> <<pg, i>>]

Max(a, b) == IF a >= b THEN a ELSE b
\* math.ceil(a / b) for b > 0
Ceil(a, b) == -((-a) \div b)
\* int(pag.get(key, default))
IntOr(value, default) == IF value.kind = "absent" THEN default ELSE value.v

Stop(how, records) == [next |-> how, all_records |-> records]

\* Lines 188-201: TRUE when the loop goes on to page += 1 after a non-empty
\* page raw. A key that int() rejects raises, and the except branch compares
\* len(raw) with the requested page size.
more_pages(lim, pg, raw, pag) ==
    IF "bad" \in {pag.total.kind, pag.limit.kind, pag.page.kind}
    THEN ~(Len(raw) < lim)
    ELSE LET total == IntOr(pag.total, Len(raw))
             per == IntOr(pag.limit, lim)
             cur == IntOr(pag.page, pg)
             max_pages == Max(1, Ceil(total, Max(1, per)))
         IN  ~(cur >= max_pages)

\* A loop that looks at the pagination block before it looks at the page:
\* an empty page whose block announces more pages does not end it.
paginate_turn_block_first(lim, pg, all, ans) ==
    LET got == get_json(ans.resp)
        c == ans.content
        raw == Records(pg, c.count)
    IN  IF got.next = "raise"
        THEN Stop("raise", all)
        ELSE IF c.shape = "array"
        THEN IF c.count = 0 THEN Stop("return", all) ELSE Stop("raise", all)
        ELSE IF raw = <<>> /\ ~more_pages(lim, pg, raw, c.pagination)
        THEN Stop("return", all)
        ELSE IF more_pages(lim, pg, raw, c.pagination)
        THEN Stop("continue", all \o raw)
        ELSE Stop("return", all \o raw)

\* A loop that keeps the records of the newest page only.
paginate_turn_newest_page(lim, pg, all, ans) ==
    LET got == get_json(ans.resp)
        c == ans.content
        raw == Records(pg, c.count)
    IN  IF got.next = "raise"
        THEN Stop("raise", all)
        ELSE IF c.shape = "array"
        THEN IF c.count = 0 THEN Stop("return", all) ELSE Stop("raise", all)
        ELSE IF raw = <<>>
        THEN Stop("return", all)
        ELSE IF more_pages(lim, pg, raw, c.pagination)
        THEN Stop("continue", raw)
        ELSE Stop("return", raw)

\* One turn of the while loop of paginate_json on the answer ans to the
\* request for page pg. An exception of get_json leaves the function; a body
\* that is a JSON array has no .get (an empty one is falsy and reads as {}).
paginate_turn(lim, pg, all, ans) ==
    LET got == get_json(ans.resp)
        c == ans.content
        raw == Records(pg, c.count)
    IN  IF got.next = "raise"
        THEN Stop("raise", all)
        ELSE IF c.shape = "array"
        THEN IF c.count = 0 THEN Stop("return", all) ELSE Stop("raise", all)
        ELSE IF raw = <<>>
        THEN Stop("return", all)
        ELSE IF more_pages(lim, pg, raw, c.pagination)
        THEN Stop("continue", all \o raw)
        ELSE Stop("return", all \o raw)

\* get_json(session, url, {page, limit}) and the rest of the turn.
RequestPage(ans) ==
    /\ pPc = "page"
    /\ page <= MaxPages
    /\ pLast' = Some(ans)
    /\ LET t == paginate_turn(limit, page, all_records, ans)
       IN  /\ all_records' = t.all_records
           /\ IF t.next = "continue"
              THEN page' = page + 1 /\ pPc' = "pausing"
              ELSE /\ page' = page
                   /\ pPc' = IF t.next = "raise" THEN "raised" ELSE "returned"
    /\ UNCHANGED limit
    /\ UNCHANGED <<coordVars, windowVars, getVars, histVars, storeVars, pipeVars,
                   dimVars>>

\* asyncio.sleep(0.4 + random.random() * 0.6) between two pages is over.
PauseOver ==
    /\ pPc = "pausing"
    /\ pPc' = "page"
    /\ UNCHANGED <<limit, page, all_records, pLast>>
    /\ UNCHANGED <<coordVars, windowVars, getVars, histVars, storeVars, pipeVars,
                   dimVars>>

\* A task that keeps the records of the pages it had when the fetch failed.
run_one_result_partial(branch_id, next, records, kwargs_ok) ==
    IF next = "raise" \/ ~kwargs_ok
    THEN [data |-> Some(records), branch_id |-> branch_id,
          record_count |-> Len(records), status |-> "error",
          error |-> Some("fetch failed")]
    ELSE [data |-> Some(records), branch_id |-> branch_id,
          record_count |-> Len(records), status |-> "success", error |-> None]
\* What _run_one stores in results[bid] when paginate_json, awaited by
\* _perform_extraction inside extract_async, returned records or raised
\* (next): the success result with data and record_count = len(data), or
\* the error result of the except block of extract_async (of _run_one when
\* the keyword arguments make ExtractionResult raise), whose data is None
\* and whose record_count is the default 0.
run_one_result(branch_id, next, records, kwargs_ok) ==
    IF next = "raise" \/ ~kwargs_ok
    THEN [data |-> None, branch_id |-> branch_id, record_count |-> 0,
          status |-> "error", error |-> Some("fetch failed")]
    ELSE [data |-> Some(records), branch_id |-> branch_id,
          record_count |-> Len(records), status |-> "success", error |-> None]

\* run_booking_pipeline, first loop: the records handed to the parser and
\* the staging loader, none unless raw_result.is_success and raw_result.data.
to_staging(raw_result) ==
    IF is_success(raw_result) /\ IsSome(raw_result.data)
          /\ Get(raw_result.data) # <<>>
    THEN Get(raw_result.data)
    ELSE <<>>

----------------------------------------------------------------------------
(* HistoricalProcessor: SCD type 2 history of one (dataset, branch) *)

\* primary_key is the column id; columns_to_compare are the object (string)
\* columns note and status; extracted_at is in the schema and not compared.
\* A staged row is [id, note, status, extracted_at]; a history row has
\* valid_from, valid_to (None for NaT) and is_current in addition.
Ids == {"K1", "K2"}
Attributes ==
    { [note |-> "a", status |-> "bc"],
      [note |-> "ab", status |-> "c"],
      [note |-> "a", status |-> "c"] }
ExtractedAts == {1, 2}
StagedRows ==
    { [id |-> k, note |-> at.note, status |-> at.status, extracted_at |-> e] :
      k \in Ids, at \in Attributes, e \in ExtractedAts }

\* The staging file of the month: missing or empty, one row, or two rows of
\* which the second was appended with or after the first.
StagingFiles ==
    {<<>>} \cup {<<r>> : r \in StagedRows}
           \cup UNION { {<<r1, r2>> : r2 \in {x \in StagedRows :
                                                x.extracted_at >= r1.extracted_at}} :
                        r1 \in StagedRows }

\* The missing value of the primary key column (NaN, None or pd.NA). Nothing
\* between read_parquet and to_parquet looks for it: drop_duplicates, merge
\* and isin take two missing keys for equal, so it is compared as a value.
NaN == "NaN"
\* Staged rows of which some have no primary key, and the staging files of
\* one or two of them.
KeylessRows ==
    { [id |-> k, note |-> at.note, status |-> at.status, extracted_at |-> e] :
      k \in {NaN, "K1"}, at \in {x \in Attributes : x.status = "c"},
      e \in ExtractedAts }
KeylessFiles ==
    {<<r>> : r \in KeylessRows}
        \cup UNION { {<<r1, r2>> : r2 \in {x \in KeylessRows :
                                             /\ x.extracted_at >= r1.extracted_at
                                             /\ NaN \in {r1.id, x.id}}} :
                     r1 \in KeylessRows }

\* The same sort with the oldest extraction first.
sort_values_ascending(df) ==
    LET n == Len(df)
        orders == {p \in [1 .. n -> 1 .. n] :
                       /\ \A i, j \in 1 .. n : p[i] = p[j] => i = j
                       /\ \A i \in 1 .. n - 1 :
                             df[p[i]].extracted_at <= df[p[i + 1]].extracted_at}
    IN  {[i \in 1 .. n |-> df[p[i]]] : p \in orders}
\* df.sort_values(by="extracted_at", ascending=False): the sort is not a
\* stable one, rows of equal extracted_at come out in any order.
sort_values(df) ==
    LET n == Len(df)
        orders == {p \in [1 .. n -> 1 .. n] :
                       /\ \A i, j \in 1 .. n : p[i] = p[j] => i = j
                       /\ \A i \in 1 .. n - 1 :
                             df[p[i]].extracted_at >= df[p[i + 1]].extracted_at}
    IN  {[i \in 1 .. n |-> df[p[i]]] : p \in orders}

\* .drop_duplicates(subset=[primary_key], keep="first").reset_index(drop=True)
RECURSIVE drop_duplicates(_)
drop_duplicates(df) ==
    IF df = <<>>
    THEN <<>>
    ELSE LET rest == drop_duplicates(SubSeq(df, 1, Len(df) - 1))
             last == df[Len(df)]
         IN  IF \E i \in 1 .. Len(df) - 1 : df[i].id = last.id
             THEN rest
             ELSE Append(rest, last)

\* _get_latest_staging_state: the frames it can return for a staging file.
get_latest_staging_state(file) == {drop_duplicates(df) : df \in sort_values(file)}

RowsOf(df) == {df[i] : i \in 1 .. Len(df)}
\* df[df[primary_key].isin(ids)]
isin(df, ids) ==
    LET Kept(r) == r.id \in ids
    IN  SelectSeq(df, Kept)
\* prev_hist_df[prev_hist_df['is_current']]
active_rows(df) ==
    LET Current(r) == r.is_current
    IN  SelectSeq(df, Current)

\* create_hash: the compared columns in sorted order, each astype(str), summed
\* along the row, which for strings is their concatenation.
create_hash(row) == row.note \o row.status

\* No key of both frames is taken for an unchanged one.
unchanged_ids_none(active, stag) == {}
\* The primary keys of the rows of the outer merge that are in both frames,
\* with equal and with different hashes, and of those in the snapshot only.
unchanged_ids(active, stag) ==
    {h.id : h \in {x \in RowsOf(active) :
                      \E t \in RowsOf(stag) :
                          t.id = x.id /\ create_hash(x) = create_hash(t)}}
changed_ids(active, stag) ==
    {h.id : h \in {x \in RowsOf(active) :
                      \E t \in RowsOf(stag) :
                          t.id = x.id /\ create_hash(x) # create_hash(t)}}
\* No key of the snapshot is taken for a new one.
new_ids_none(active, stag) == {}
new_ids(active, stag) ==
    {t.id : t \in RowsOf(stag)} \ {h.id : h \in RowsOf(active)}

\* A row that opens at the time its snapshot row was extracted.
OpenAtExtractedAt(row, now) ==
    [id |-> row.id, note |-> row.note, status |-> row.status,
     extracted_at |-> row.extracted_at,
     valid_from |-> row.extracted_at, valid_to |-> None, is_current |-> TRUE]
\* A snapshot row with valid_from = now_utc, valid_to = NaT, is_current = True,
\* in the columns of the schema.
Open(row, now) ==
    [id |-> row.id, note |-> row.note, status |-> row.status,
     extracted_at |-> row.extracted_at,
     valid_from |-> now, valid_to |-> None, is_current |-> TRUE]

\* A row that closes at the time it was extracted.
ExpireAtExtractedAt(row, now) ==
    [row EXCEPT !.valid_to = Some(row.extracted_at), !.is_current = FALSE]
\* A closed row that is still flagged as the current one.
ExpireKeepsCurrent(row, now) == [row EXCEPT !.valid_to = Some(now)]
\* An active row with valid_to = now_utc, is_current = False.
Expire(row, now) == [row EXCEPT !.valid_to = Some(now), !.is_current = FALSE]

Written(status, rows) == [status |-> status, output |-> Some(rows)]
\* A skip that leaves an empty history file behind.
SkippedWritesEmpty == [status |-> "skipped", output |-> Some(<<>>)]
Skipped == [status |-> "skipped", output |-> None]

\* process() on the history file prev (None when there is none), the
\* snapshot stag and now_utc = now: the status of its result and the rows it
\* writes to *_history.parquet.
process(prev, stag, now) ==
    IF stag = <<>>
    THEN Skipped
    ELSE IF ~IsSome(prev)
    THEN Written("success", [i \in 1 .. Len(stag) |-> Open(stag[i], now)])
    ELSE LET active_hist_df == active_rows(Get(prev))
             unchanged == unchanged_ids(active_hist_df, stag)
             changed == changed_ids(active_hist_df, stag)
             final_unchanged == isin(active_hist_df, unchanged)
             expired == isin(active_hist_df, changed)
             expired_records == [i \in 1 .. Len(expired) |-> Expire(expired[i], now)]
             versions == isin(stag, changed)
             new_version_records ==
                 [i \in 1 .. Len(versions) |-> Open(versions[i], now)]
             news == isin(stag, new_ids(active_hist_df, stag))
             final_new == [i \in 1 .. Len(news) |-> Open(news[i], now)]
             combined_df == final_unchanged \o expired_records
                                \o new_version_records \o final_new
         IN  IF combined_df = <<>>
             THEN Written("skipped", active_hist_df)
             ELSE Written("success", combined_df)

\* A HistoricalProcessor is built (now_utc is read) and process() runs on
\* the staging file of the month and the latest history file.
Process(file) ==
    /\ hPc = "ready"
    /\ as_of < MaxSnapshots
    /\ as_of' = as_of + 1
    /\ staging' = file
    /\ prev_hist_df' = history
    /\ \E df \in get_latest_staging_state(file) :
          LET result == process(history, df, as_of + 1)
          IN  /\ latest_staging_df' = df
              /\ hResult' = result.status
              /\ history' = IF IsSome(result.output) THEN result.output ELSE history
    /\ hPc' = "processed"
    /\ UNCHANGED <<coordVars, windowVars, getVars, pageVars, storeVars, pipeVars,
                   dimVars>>

\* The next run finds the staging file as the last run left it (nothing was
\* appended to it) and its processor reads it again.
ProcessAgain ==
    /\ hPc = "processed"
    /\ as_of < MaxSnapshots
    /\ as_of' = as_of + 1
    /\ prev_hist_df' = history
    /\ \E df \in get_latest_staging_state(staging) :
          LET result == process(history, df, as_of + 1)
          IN  /\ latest_staging_df' = df
              /\ hResult' = result.status
              /\ history' = IF IsSome(result.output) THEN result.output ELSE history
    /\ UNCHANGED <<hPc, staging>>
    /\ UNCHANGED <<coordVars, windowVars, getVars, pageVars, storeVars, pipeVars,
                   dimVars>>

\* The processor and the locals of its call are gone; the files stay.
Discard ==
    /\ hPc = "processed"
    /\ hPc' = "ready"
    /\ staging' = <<>>
    /\ latest_staging_df' = <<>>
    /\ prev_hist_df' = None
    /\ hResult' = "none"
    /\ UNCHANGED <<history, as_of>>
    /\ UNCHANGED <<coordVars, windowVars, getVars, pageVars, storeVars, pipeVars,
                   dimVars>>

----------------------------------------------------------------------------
(* The state manager on its own: saves and loads, and what their file      *)
(* accesses meet                                                           *)

MaxCalls == 3        \* calls of the state manager in one behaviour

StoreFields == {"check_in", "last_updated"}
StoreBranches == {1, 2}
StoreKeys == {<<f, b>> : f \in StoreFields, b \in StoreBranches}
\* Timezone-aware timestamps: one in UTC, one in ICT (UTC+7, 28 units).
OffsetICT == 28
StoreStamps == {Utc(ClockStart), Aware(ClockStart + 1 + OffsetICT, OffsetICT)}
\* What open() and json.load(), or open() and json.dump(), meet: nothing, or
\* IOError / JSONDecodeError, which both functions catch and log.
Outcomes == {"ok", "error"}

\* The try block that reads the file gives the stored state: the file exists
\* and neither open() nor json.load() raises.
Readable(exists, read) == exists /\ read = "ok"

\* save_last_run_timestamp(f"{endpoint}:{field}", branch_id, timestamp).  A
\* file that cannot be read counts as an empty state; a failed write is
\* logged and leaves the file as it was (open() raised).
SaveTimestamp(field, branch_id, timestamp, read, write) ==
    /\ smCall.n < MaxCalls
    /\ smCall' = [n |-> smCall.n + 1, op |-> "save", key |-> <<field, branch_id>>,
                  read |-> read, write |-> write, result |-> None]
    /\ IF write = "ok"
       THEN /\ fileState' = save_last_run_timestamp(
                                 Readable(fileExists, read), fileState,
                                 SourceKey(Endpoint, field), branch_id, timestamp)
            /\ fileExists' = TRUE
            /\ smSaved' = [smSaved EXCEPT ![<<field, branch_id>>] = Some(timestamp)]
       ELSE UNCHANGED <<fileExists, fileState, smSaved>>
    /\ UNCHANGED <<clock, run, pc, dw, results, fault, returned, before, runsDone>>
    /\ UNCHANGED <<windowVars, getVars, pageVars, histVars, pipeVars, dimVars>>

\* load_last_run_timestamp(f"{endpoint}:{field}", branch_id).  A file that
\* cannot be read gives None.
LoadTimestamp(field, branch_id, read) ==
    /\ smCall.n < MaxCalls
    /\ smCall' = [n |-> smCall.n + 1, op |-> "load", key |-> <<field, branch_id>>,
                  read |-> read, write |-> "ok",
                  result |-> load_last_run_timestamp(
                                 Readable(fileExists, read), fileState,
                                 SourceKey(Endpoint, field), branch_id)]
    /\ UNCHANGED smSaved
    /\ UNCHANGED coordVars
    /\ UNCHANGED <<windowVars, getVars, pageVars, histVars, pipeVars, dimVars>>

----------------------------------------------------------------------------
(* main() running the booking pipeline: run_booking_pipeline and the report *)

MaxReports == 2      \* runs of main() in one behaviour

\* Two of the branches of TOKEN_BRANCH_MAP.
PipelineBranches == {1, 2}
\* The orders in which multi_branch_raw_results.items() gives the branches:
\* the order in which their tasks stored their results.
BranchOrders == {<<1, 2>>, <<2, 1>>}
\* An ExtractionResult as the pipeline reads it: status and whether data is
\* a non-empty list.
RawResults ==
    { [status |-> "success", data |-> TRUE],
      [status |-> "success", data |-> FALSE],
      [status |-> "error", data |-> FALSE] }
\* The DWH processor that fails, counted from 1 (DimDate, DimMarket,
\* FactBooking); 0 when none does.
DwhFailures == {0, 2}
DwhProcessors == 3

\* ProcessingResult.is_success
processing_is_success(status) == status = "success"

\* The report dict main() creates.
NewReport ==
    [overall_status |-> "SUCCESS",
     staging |-> [b \in PipelineBranches |-> None],
     historical |-> [b \in PipelineBranches |-> None],
     dwh |-> <<>>,
     error |-> FALSE]
\* except Exception in main(): the status and the traceback are recorded.
Failed(rep) == [rep EXCEPT !.overall_status = "FAILED", !.error = TRUE]

NoPipeline == [pc |-> "start", todo |-> <<>>, loaded |-> {}, snapshot |-> None]

\* main() creates the report and the client and calls run_booking_pipeline,
\* which awaits extract_multi_branch.
StartMain ==
    /\ pipe.pc = "start"
    /\ Len(outbox) < MaxReports
    /\ pipe' = [pipe EXCEPT !.pc = "extracting"]
    /\ report' = NewReport
    /\ UNCHANGED outbox
    /\ UNCHANGED <<coordVars, windowVars, getVars, pageVars, histVars, storeVars,
                   dimVars>>

\* extract_multi_branch returned raw (one result per branch, in order).  The
\* first loop records each result in the report and, for a success with
\* data, parses it, hands it to the StagingLoader and notes the branch;
\* loads is the set of branches whose staging load wrote the file (the
\* result of load() is not looked at).  Without a noted branch the pipeline
\* returns to main().
Stage1(order, raw, loads) ==
    /\ pipe.pc = "extracting"
    /\ LET Taken(b) == raw[b].status = "success" /\ raw[b].data
           successful_branch_ids == SelectSeq(order, Taken)
       IN  /\ loads \subseteq {b \in PipelineBranches : Taken(b)}
           /\ report' = [report EXCEPT !.staging =
                             [b \in PipelineBranches |-> Some(raw[b])]]
           /\ pipe' = [pc |-> IF successful_branch_ids = <<>>
                               THEN "upload" ELSE "historical",
                       todo |-> successful_branch_ids,
                       loaded |-> loads,
                       snapshot |-> None]
    /\ UNCHANGED outbox
    /\ UNCHANGED <<coordVars, windowVars, getVars, pageVars, histVars, storeVars,
                   dimVars>>

\* The snapshots the HistoricalProcessor of a branch can find: rows when this
\* run or an earlier run of the month wrote the staging file, none when the
\* load of this run failed and there is no such file.
StagedBooking == [id |-> "K1", note |-> "a", status |-> "c", extracted_at |-> 1]
SnapshotsOf(b, loads) ==
    {<<StagedBooking>>} \cup IF b \in loads THEN {} ELSE {<<>>}

\* One turn of the second loop: the processor of the next noted branch runs
\* (run() turns an exception of process() into status "error"; process()
\* returns before anything can raise when it finds no row), its result
\* goes to the report, and a result that is not a success raises, which
\* ends the pipeline and is caught in main().
Historize(snapshot, raises) ==
    /\ pipe.pc = "historical"
    /\ LET branch_id == Head(pipe.todo)
           status == IF raises THEN "error"
                     ELSE process(None, snapshot, clock).status
       IN  /\ snapshot \in SnapshotsOf(branch_id, pipe.loaded)
           /\ raises => snapshot # <<>>
           /\ IF processing_is_success(status)
              THEN /\ report' = [report EXCEPT !.historical[branch_id] = Some(status)]
                   /\ pipe' = [pipe EXCEPT !.todo = Tail(pipe.todo),
                                           !.snapshot = Some(snapshot),
                                           !.pc = IF Tail(pipe.todo) = <<>>
                                                  THEN "dwh" ELSE "historical"]
              ELSE /\ report' = Failed([report EXCEPT
                                            !.historical[branch_id] = Some(status)])
                   /\ pipe' = [pipe EXCEPT !.snapshot = Some(snapshot),
                                           !.pc = "finally"]
    /\ UNCHANGED outbox
    /\ UNCHANGED <<coordVars, windowVars, getVars, pageVars, histVars, storeVars,
                   dimVars>>

\* The third loop: the DWH processors run in turn until one is not a
\* success, which raises.
Dwh(failing) ==
    /\ pipe.pc = "dwh"
    /\ IF failing = 0
       THEN /\ report' = [report EXCEPT !.dwh =
                              [i \in 1 .. DwhProcessors |-> "success"]]
            /\ pipe' = [pipe EXCEPT !.pc = "upload"]
       ELSE /\ report' = Failed([report EXCEPT !.dwh =
                              [i \in 1 .. failing |->
                                  IF i < failing THEN "success" ELSE "error"]])
            /\ pipe' = [pipe EXCEPT !.pc = "finally"]
    /\ UNCHANGED outbox
    /\ UNCHANGED <<coordVars, windowVars, getVars, pageVars, histVars, storeVars,
                   dimVars>>

\* Back in main(): the layers are uploaded to Google Drive, which raises or
\* does not.
Upload(raises) ==
    /\ pipe.pc = "upload"
    /\ report' = IF raises THEN Failed(report) ELSE report
    /\ pipe' = [pipe EXCEPT !.pc = "finally"]
    /\ UNCHANGED outbox
    /\ UNCHANGED <<coordVars, windowVars, getVars, pageVars, histVars, storeVars,
                   dimVars>>

\* finally: the report is handed to the EmailNotifier and main() ends.
SendReport ==
    /\ pipe.pc = "finally"
    /\ outbox' = Append(outbox, report)
    /\ pipe' = NoPipeline
    /\ report' = None
    /\ UNCHANGED <<coordVars, windowVars, getVars, pageVars, histVars, storeVars,
                   dimVars>>

----------------------------------------------------------------------------
(* DimensionExtractor.extract_multi_branch: one dimension, many branches *)

\* The extractor after __init__ (no shared data cached) and before any call.
NoDimension ==
    [active |-> FALSE, shared |-> FALSE, branch_ids |-> <<>>,
     pc |-> [b \in Branches |-> "none"],
     results |-> [b \in Branches |-> None],
     cache |-> None, returned |-> None, calls |-> 0]

\* The branch_ids lists tried, in the order the caller gives them.
DimBranchLists == {<<>>, <<2>>, <<3, 1>>, <<1, 2, 3>>}
Elems(ids) == {ids[i] : i \in 1 .. Len(ids)}

\* The coroutines of extract_async that have passed get_session and await
\* the answer of the API.
DimInFlight == {b \in Branches : dim.pc[b] = "fetching"}

\* Lines 88-96: the result of the representative branch, copied for every
\* requested branch when it is a success and handed on as it is when not.
Replicated(ids, result) ==
    [b \in Elems(ids) |->
        IF is_success(result)
        THEN ExtractionResult(result.data, b, "success", None)
        ELSE result]

\* extract_multi_branch(branch_ids) is called.  For a shared dimension it
\* awaits extract_async for branch_ids[0] (IndexError on an empty list),
\* which answers from the cache without an await when the cache is filled;
\* for a per-branch dimension it builds one extract_async coroutine per
\* branch id and hands them all to asyncio.gather.
DimStart(shared, ids) ==
    /\ ~dim.active
    /\ dim.calls < MaxRuns
    /\ IF shared /\ ids = <<>>
       THEN dim' = [dim EXCEPT !.returned = Some(Raise("IndexError")),
                               !.shared = shared, !.branch_ids = ids,
                               !.calls = @ + 1]
       ELSE IF shared /\ IsSome(dim.cache)
       THEN dim' = [dim EXCEPT
                !.returned = Some(Replicated(ids,
                    ExtractionResult(dim.cache, ids[1], "success", None))),
                !.shared = shared, !.branch_ids = ids, !.calls = @ + 1]
       ELSE dim' = [dim EXCEPT
                !.active = TRUE, !.shared = shared, !.branch_ids = ids,
                !.returned = None,
                !.results = [b \in Branches |-> None],
                !.pc = [b \in Branches |->
                          IF shared
                          THEN IF b = ids[1] THEN "fetching" ELSE "none"
                          ELSE IF b \in Elems(ids) THEN "created" ELSE "none"]]
    /\ UNCHANGED <<coordVars, windowVars, getVars, pageVars, histVars, storeVars,
                   pipeVars>>

\* The event loop starts the next coroutine gather was given, in the order
\* of the list: it runs through get_session up to the request it awaits.
\* Nothing stands between a coroutine and its request.
DimEnter(bid) ==
    /\ dim.active
    /\ ~dim.shared
    /\ dim.pc[bid] = "created"
    /\ \A i, j \in 1 .. Len(dim.branch_ids) :
          (i < j /\ dim.branch_ids[j] = bid) => dim.pc[dim.branch_ids[i]] # "created"
    /\ dim' = [dim EXCEPT !.pc[bid] = "fetching"]
    /\ UNCHANGED <<coordVars, windowVars, getVars, pageVars, histVars, storeVars,
                   pipeVars>>

\* The fetch of bid ends (fetch = "ok" or "raise") and extract_async builds
\* its result.  For a shared dimension the records are cached and the rest
\* of extract_multi_branch runs without another await.
DimFetchReturn(bid, fetch) ==
    /\ dim.active
    /\ dim.pc[bid] = "fetching"
    /\ LET result == IF fetch = "ok"
                     THEN ExtractionResult(Some("records"), bid, "success", None)
                     ELSE ExtractionResult(None, bid, "error", Some("fetch failed"))
       IN  IF dim.shared
           THEN dim' = [dim EXCEPT
                    !.cache = IF fetch = "ok" THEN Some("records") ELSE @,
                    !.pc[bid] = "none",
                    !.returned = Some(Replicated(dim.branch_ids, result)),
                    !.active = FALSE,
                    !.calls = @ + 1]
           ELSE dim' = [dim EXCEPT !.pc[bid] = "done",
                                   !.results[bid] = Some(result)]
    /\ UNCHANGED <<coordVars, windowVars, getVars, pageVars, histVars, storeVars,
                   pipeVars>>

\* asyncio.gather is over: the results are put in the dict by branch_id and
\* the dict is returned.
DimReturn ==
    /\ dim.active
    /\ ~dim.shared
    /\ \A b \in Elems(dim.branch_ids) : dim.pc[b] = "done"
    /\ dim' = [dim EXCEPT
             !.returned = Some([b \in Elems(dim.branch_ids) |-> Get(dim.results[b])]),
             !.active = FALSE,
             !.pc = [b \in Branches |-> "none"],
             !.results = [b \in Branches |-> None],
             !.calls = @ + 1]
    /\ UNCHANGED <<coordVars, windowVars, getVars, pageVars, histVars, storeVars,
                   pipeVars>>

----------------------------------------------------------------------------
(* One call of the window resolver on drawn inputs *)

WindowLookbacks == {0, 1, 30, 999999}
WindowNows == {ClockStart, ClockStart + Day}
\* Watermarks an earlier run may have saved, as distances before now.
WindowAges == {0, 1, 40 * Day}

\* The store an earlier successful run for the key leaves behind.
StoreWith(field, branch_id, stored) ==
    IF IsSome(stored)
    THEN save_last_run_timestamp(FALSE, EmptyState, SourceKey(Endpoint, field),
                                 branch_id, Utc(Get(stored)))
    ELSE EmptyState

WindowInputs ==
    UNION { { [field |-> f, branch_id |-> b, lookback_days |-> l, now |-> n,
               exists |-> e, stored |-> st] :
                f \in Fields, b \in Branches, l \in WindowLookbacks, e \in BOOLEAN,
                st \in {None} \cup {Some(n - a) : a \in WindowAges} } :
            n \in WindowNows }

ResolveWindow ==
    /\ IsSome(wIn)
    /\ wOut = None
    /\ LET in == Get(wIn)
       IN  wOut' = Some(build_window_from_state(
                            in.exists, StoreWith(in.field, in.branch_id, in.stored),
                            in.now, in.field, in.branch_id, in.lookback_days))
    /\ UNCHANGED wIn
    /\ UNCHANGED <<coordVars, getVars, pageVars, histVars, storeVars, pipeVars,
                   dimVars>>

----------------------------------------------------------------------------
(* Specifications *)

CoordIdle ==
    /\ clock = ClockStart
    /\ fileExists = FALSE
    /\ fileState = EmptyState
    /\ run = NoRun
    /\ pc = [b \in Branches |-> "none"]
    /\ dw = [b \in Branches |-> None]
    /\ results = [b \in Branches |-> None]
    /\ fault = [b \in Branches |-> "none"]
    /\ returned = None
    /\ before = [b \in Branches |-> None]
    /\ runsDone = 0

WindowIdle == wIn = None /\ wOut = None

HistIdle ==
    /\ history = None
    /\ hPc = "idle"
    /\ as_of = 0
    /\ staging = <<>>
    /\ latest_staging_df = <<>>
    /\ prev_hist_df = None
    /\ hResult = "none"

StoreIdle == smCall = None /\ smSaved = None

PipeIdle == pipe = None /\ report = None /\ outbox = <<>>

DimIdle == dim = None

PageIdle ==
    /\ pPc = "idle"
    /\ limit = 0
    /\ page = 0
    /\ all_records = <<>>
    /\ pLast = None

GetIdle ==
    /\ gCfg = None
    /\ gPc = "idle"
    /\ attempt = 0
    /\ requests = 0
    /\ response = None
    /\ sleeps = <<>>
    /\ gOutcome = NoOutcome

\* The coordinator: a fresh store, then calls of extract_multi_branch.
\* The strategies tried: rolling lookback, rolling lookback with a lookback
\* that reaches below datetime.min, and delta (which does not read lookback_days).
RunStrategies == {<<"check_in", 30>>, <<"check_in", 999999>>, <<"last_updated", 30>>}
\* The branch_ids lists tried (the last one is also the default, every branch).
RunBranchLists == {{}, {2}, {1, 2}, {1, 2, 3}}
\* The max_concurrent values tried: below the number of branches, so that
\* the semaphore makes tasks wait.
ConcurrencyLimits == {1, 2}

Init == CoordIdle /\ WindowIdle /\ GetIdle /\ PageIdle /\ HistIdle /\ StoreIdle /\ PipeIdle
        /\ DimIdle

Next ==
    \/ \E s \in RunStrategies, ids \in RunBranchLists,
          m \in ConcurrencyLimits, k \in BOOLEAN : StartRun(s[1], ids, s[2], m, k)
    \/ \E b \in Branches : Acquire(b)
    \/ \E b \in Branches, fetch \in {"ok", "raise"} : FetchReturn(b, fetch)
    \/ Return
    \/ Tick

Spec == Init /\ [][Next]_vars

\* The window resolver alone.
InitWindow ==
    /\ CoordIdle /\ GetIdle /\ PageIdle /\ HistIdle /\ StoreIdle /\ PipeIdle
    /\ DimIdle
    /\ wIn \in {Some(in) : in \in WindowInputs}
    /\ wOut = None

NextWindow == ResolveWindow

SpecWindow == InitWindow /\ [][NextWindow]_vars

\* One get_json call.
InitGetJson ==
    /\ CoordIdle /\ WindowIdle /\ PageIdle /\ HistIdle /\ StoreIdle /\ PipeIdle
    /\ DimIdle
    /\ gCfg \in {Some(c) : c \in Configs}
    /\ gPc = "request"
    /\ attempt = 0
    /\ requests = 0
    /\ response = None
    /\ sleeps = <<>>
    /\ gOutcome = NoOutcome

NextGetJson ==
    \/ \E resp \in Responses : SendRequest(resp)
    \/ SleepOver

SpecGetJson == InitGetJson /\ [][NextGetJson]_vars

\* The same call on a running event loop: a request is answered or times out
\* (ClientTimeout(total=60)), and asyncio.sleep returns.
SpecGetJsonLive == SpecGetJson /\ WF_vars(NextGetJson)

\* One paginate_json call.
InitPaginate ==
    /\ CoordIdle /\ WindowIdle /\ GetIdle /\ HistIdle /\ StoreIdle /\ PipeIdle
    /\ DimIdle
    /\ pPc = "page"
    /\ limit \in PageLimits
    /\ page = 1
    /\ all_records = <<>>
    /\ pLast = None

NextPaginate ==
    \/ \E ans \in PageAnswers : RequestPage(ans)
    \/ PauseOver

SpecPaginate == InitPaginate /\ [][NextPaginate]_vars

\* The history of one (dataset, branch), from no history file at all.
InitHistory ==
    /\ CoordIdle /\ WindowIdle /\ GetIdle /\ PageIdle /\ StoreIdle /\ PipeIdle
    /\ DimIdle
    /\ history = None
    /\ hPc = "ready"
    /\ as_of = 0
    /\ staging = <<>>
    /\ latest_staging_df = <<>>
    /\ prev_hist_df = None
    /\ hResult = "none"

NextHistory ==
    \/ \E file \in StagingFiles : Process(file)
    \/ ProcessAgain
    \/ Discard

SpecHistory == InitHistory /\ [][NextHistory]_vars

\* The same history fed with staging files that hold rows without a key.
NextKeyless ==
    \/ \E file \in KeylessFiles : Process(file)
    \/ ProcessAgain
    \/ Discard

SpecKeyless == InitHistory /\ [][NextKeyless]_vars

\* The state manager alone, from no state file.
NoCall == [n |-> 0, op |-> "none", key |-> <<>>, read |-> "ok", write |-> "ok",
           result |-> None]
InitStore ==
    /\ CoordIdle /\ WindowIdle /\ GetIdle /\ PageIdle /\ HistIdle /\ PipeIdle
    /\ DimIdle
    /\ smCall = NoCall
    /\ smSaved = [k \in StoreKeys |-> None]

NextStore ==
    \/ \E f \in StoreFields, b \in StoreBranches, t \in StoreStamps,
          read \in Outcomes, write \in Outcomes : SaveTimestamp(f, b, t, read, write)
    \/ \E f \in StoreFields, b \in StoreBranches, read \in Outcomes :
          LoadTimestamp(f, b, read)

SpecStore == InitStore /\ [][NextStore]_vars

\* Runs of main() with the booking pipeline, one after the other.
InitPipeline ==
    /\ CoordIdle /\ WindowIdle /\ GetIdle /\ PageIdle /\ HistIdle /\ StoreIdle
    /\ DimIdle
    /\ pipe = NoPipeline
    /\ report = None
    /\ outbox = <<>>

NextPipeline ==
    \/ StartMain
    \/ \E order \in BranchOrders, raw \in [PipelineBranches -> RawResults],
          loads \in SUBSET PipelineBranches : Stage1(order, raw, loads)
    \/ \E snapshot \in {<<>>, <<StagedBooking>>}, raises \in BOOLEAN :
          Historize(snapshot, raises)
    \/ \E failing \in DwhFailures : Dwh(failing)
    \/ \E raises \in BOOLEAN : Upload(raises)
    \/ SendReport

SpecPipeline == InitPipeline /\ [][NextPipeline]_vars

\* Calls of extract_multi_branch on one DimensionExtractor.
InitDimensions ==
    /\ CoordIdle /\ WindowIdle /\ GetIdle /\ PageIdle /\ HistIdle /\ StoreIdle
    /\ PipeIdle
    /\ dim = NoDimension

NextDimensions ==
    \/ \E shared \in BOOLEAN, ids \in DimBranchLists : DimStart(shared, ids)
    \/ \E b \in Branches : DimEnter(b)
    \/ \E b \in Branches, fetch \in {"ok", "raise"} : DimFetchReturn(b, fetch)
    \/ DimReturn

SpecDimensions == InitDimensions /\ [][NextDimensions]_vars

----------------------------------------------------------------------------
(* Claims about the coordinator, checked under Spec *)

Succeeded(res) == res.status = "success" /\ res.error = None
Ended(b) == run.active /\ b \in run.branch_ids /\ pc[b] = "done"
AfterOrEqual(new, old) == IsSome(new) /\ Instant(Get(new)) >= Instant(Get(old))

C3_FailureIsolated ==
    /\ \A b \in Branches :
          Ended(b) =>
              LET r == Get(results[b])
              IN  /\ r.branch_id = b
                  /\ fault[b] = "none" => Succeeded(r)
                  /\ fault[b] # "none" =>
                        r.status = "error" /\ IsSome(r.error) /\ r.data = None
                  /\ Watermark(run.field, b) # before[b] => Succeeded(r)
    /\ (run.active /\ \E b \in run.branch_ids : pc[b] # "done") =>
          \/ \E b \in run.branch_ids : pc[b] = "fetching"
          \/ \E b \in run.branch_ids : pc[b] = "waiting" /\ SemFree

\* Three partitions, the second failed with an exception of the resolver
\* while the first and the third succeeded and advanced their watermarks.
C3_Witness ==
    /\ run.active
    /\ run.branch_ids = {1, 2, 3}
    /\ \A b \in run.branch_ids : pc[b] = "done"
    /\ fault = [b \in Branches |-> IF b = 2 THEN "window" ELSE "none"]
    /\ Watermark(run.field, 1) = Some(Get(dw[1]).end)
    /\ Watermark(run.field, 3) = Some(Get(dw[3]).end)
    /\ Watermark(run.field, 2) = before[2]

\* C4: the number of tasks between entering and leaving the semaphore never
\* exceeds max_concurrent.
C4_ConcurrencyBounded ==
    run.active =>
        Cardinality({b \in Branches : pc[b] = "fetching"}) <= run.max_concurrent

\* The semaphore is full and a task is kept waiting by it.
C4_Witness ==
    /\ run.active
    /\ Cardinality({b \in Branches : pc[b] = "fetching"}) = run.max_concurrent
    /\ \E b \in run.branch_ids : pc[b] = "waiting"

\* C5: the returned map has exactly the requested branches as keys, and the
\* entry of a branch is the outcome of that branch.
C5_ResultPerPartition ==
    IsSome(returned) =>
        LET ret == Get(returned)
        IN  /\ DOMAIN ret.map = ret.requested
            /\ \A b \in ret.requested :
                  /\ ret.map[b].branch_id = b
                  /\ Succeeded(ret.map[b]) <=> fault[b] = "none"

\* A returned map of three entries in which successes and failures are mixed.
C5_Witness ==
    /\ IsSome(returned)
    /\ Get(returned).requested = {1, 2, 3}
    /\ Get(returned).map[1].status = "error"
    /\ Get(returned).map[2].status = "success"
    /\ Get(returned).map[3].status = "error"

C39_NoGapBetweenWindows ==
    (run.active /\ run.field \notin RollingFields) =>
        \A b \in run.branch_ids :
            IsSome(dw[b]) =>
                /\ IF IsSome(before[b])
                   THEN Instant(Get(dw[b]).start) <= Instant(Get(before[b]))
                   ELSE Instant(Get(dw[b]).start) = Epoch
                /\ Instant(Get(dw[b]).start) <= Instant(Get(dw[b]).end)
                /\ IsSome(before[b]) =>
                      Instant(Get(before[b])) <= Instant(Get(dw[b]).end)
                /\ Ended(b) =>
                      IF Succeeded(Get(results[b]))
                      THEN Instant(Get(Watermark(run.field, b)))
                              = Instant(Get(dw[b]).end)
                      ELSE Watermark(run.field, b) = before[b]

\* In a second call on last_updated, one branch succeeded again, its window
\* reaching back before the watermark of the first call and ending after
\* it, and another failed and kept the watermark of the first call.
C39_Witness ==
    /\ run.active
    /\ runsDone = 1
    /\ run.field = "last_updated"
    /\ \E b \in run.branch_ids :
          /\ Ended(b) /\ Succeeded(Get(results[b]))
          /\ IsSome(before[b])
          /\ Instant(Get(dw[b]).start) = Instant(Get(before[b])) - SafetyMargin
          /\ Instant(Get(dw[b]).end) > Instant(Get(before[b]))
    /\ \E b \in run.branch_ids :
          /\ Ended(b) /\ ~Succeeded(Get(results[b]))
          /\ IsSome(before[b])
          /\ IsSome(dw[b])

----------------------------------------------------------------------------
(* Claims about the window resolver, checked under SpecWindow *)

Resolved == IsSome(wIn) /\ IsSome(wOut)
HasWatermark(in) == in.exists /\ IsSome(in.stored)
IsWindow(w, start, end) ==
    /\ w.kind = "window"
    /\ w.start.aware /\ Instant(w.start) = start
    /\ w.end.aware /\ Instant(w.end) = end

\* C6: with no watermark stored for the key (no state file, or no entry in
\* it), the resolver returns the window from the fixed epoch to now, for
\* every field and every lookback_days.
C6_FirstRunBackfill ==
    (Resolved /\ ~HasWatermark(Get(wIn))) =>
        IsWindow(Get(wOut), Epoch, Get(wIn).now)

\* A first run on a rolling field with a lookback too large to subtract.
C6_Witness ==
    /\ Resolved
    /\ ~HasWatermark(Get(wIn))
    /\ Get(wIn).field = "check_in"
    /\ Get(wIn).lookback_days = 999999
    /\ Get(wOut).kind = "window"

\* C7: with a watermark stored, for the fields check_in and created_date the
\* resolver returns the window from now minus lookback_days to now, whatever
\* the watermark (for every lookback whose start is a representable datetime).
C7_RollingLookback ==
    (/\ Resolved
     /\ HasWatermark(Get(wIn))
     /\ Get(wIn).field \in {"check_in", "created_date"}
     /\ Get(wIn).now - Get(wIn).lookback_days * Day >= DatetimeMin) =>
        IsWindow(Get(wOut), Get(wIn).now - Get(wIn).lookback_days * Day, Get(wIn).now)

\* A rolling window of 30 days resolved for created_date over an old watermark.
C7_Witness ==
    /\ Resolved
    /\ HasWatermark(Get(wIn))
    /\ Get(wIn).field = "created_date"
    /\ Get(wIn).lookback_days = 30
    /\ Get(Get(wIn).stored) < Get(wIn).now - 30 * Day
    /\ Get(wOut).kind = "window"

C36_StartNotAfterEnd ==
    (Resolved /\ Get(wOut).kind = "window") =>
        Instant(Get(wOut).start) <= Instant(Get(wOut).end)

\* The tightest case: a rolling window with lookback_days = 0 over a stored
\* watermark is the empty window from now to now.
C36_Witness ==
    /\ Resolved
    /\ HasWatermark(Get(wIn))
    /\ Get(wIn).field = "check_in"
    /\ Get(wIn).lookback_days = 0
    /\ Get(wOut).kind = "window"
    /\ Instant(Get(wOut).start) = Get(wIn).now
    /\ Instant(Get(wOut).end) = Get(wIn).now

----------------------------------------------------------------------------
(* Claims about get_json, checked under SpecGetJson *)

Latest == Get(response)
LatestIs(statuses) ==
    IsSome(response) /\ Latest.kind = "http" /\ Latest.status \in statuses

\* C9: a response with status 401 or 403 and a JSON body ends the call with a
\* permission error at once: no sleep follows it, and if it is the first
\* response exactly one request has been issued.
C9_AuthJsonTerminal ==
    (LatestIs({401, 403}) /\ Latest.body.json) =>
        /\ gPc = "raised"
        /\ gOutcome = Throw("PermissionError")
        /\ requests = attempt
        /\ \A i \in 1 .. Len(sleeps) : sleeps[i][1] < attempt

\* C10: a 403 response whose body is not JSON is retried while attempts
\* remain, after a delay that is at most the maximum wait and at least the
\* delay of every earlier such retry; with no attempt left the call ends
\* with an error.
C10_Waf403Retried ==
    (LatestIs({403}) /\ ~Latest.body.json) =>
        IF attempt < Get(gCfg).retry_max_attempts
        THEN /\ gPc \in {"sleeping", "request"}
             /\ sleeps # <<>>
             /\ LET last == sleeps[Len(sleeps)]
                IN  /\ last[1] = attempt
                    /\ last[3] <= Get(gCfg).retry_max_wait
                    /\ \A i \in 1 .. Len(sleeps) :
                          sleeps[i][2] = "waf" => sleeps[i][3] <= last[3]
        ELSE gPc = "raised"

\* C11: a response with a status of the retry set is retried while attempts
\* remain; the wait before the retry is the delay the Retry-After header
\* asks for when the response has one, and min(multiplier * 2^(attempt-1),
\* max_wait) otherwise, which is at most max_wait.
C11_RetryStatusBackoff ==
    (LatestIs(retry_status_codes) /\ attempt < Get(gCfg).retry_max_attempts) =>
        /\ gPc \in {"sleeping", "request"}
        /\ sleeps # <<>>
        /\ LET last == sleeps[Len(sleeps)]
               cfg == Get(gCfg)
               backoff == Min(cfg.retry_wait_multiplier * 2 ^ (attempt - 1),
                              cfg.retry_max_wait)
           IN  /\ last[1] = attempt
               /\ IF IsSome(Latest.retry_after)
                  THEN last[3] = Get(Latest.retry_after).seconds
                  ELSE last[3] = backoff /\ last[3] <= cfg.retry_max_wait

\* A response on which get_json does not retry, whatever attempts remain.
TerminalResponse(resp) ==
    /\ resp.kind = "http"
    /\ resp.status \notin retry_status_codes
    /\ ~(resp.status = 403 /\ resp.body.doctype)

C31_NetworkErrorRetried ==
    /\ []((IsSome(response) /\ Latest.kind = "error") =>
             LET cfg == Get(gCfg)
             IN  IF attempt < cfg.retry_max_attempts
                 THEN /\ gPc \in {"sleeping", "request"}
                      /\ sleeps # <<>>
                      /\ sleeps[Len(sleeps)] =
                            <<attempt, "network",
                              Min(cfg.retry_wait_multiplier * 2 ^ (attempt - 1),
                                  cfg.retry_max_wait)>>
                      /\ sleeps[Len(sleeps)][3] <= cfg.retry_max_wait
                 ELSE /\ gPc = "raised"
                      /\ gOutcome = Throw("ClientError")
                      /\ attempt = cfg.retry_max_attempts)
    /\ \A n \in 0 .. MaxAttempts :
          (gPc = "request" /\ requests = n) ~> (requests = n + 1)

\* Three requests that all met a network error: a sleep of the multiplier,
\* a sleep cut to max_wait, and the error raised on the third.
C31_Witness ==
    /\ gPc = "raised"
    /\ attempt = 3
    /\ Latest.kind = "error"
    /\ Get(gCfg).retry_wait_multiplier = 3
    /\ Get(gCfg).retry_max_wait = 3
    /\ sleeps = << <<1, "network", 3>>, <<2, "network", 3>> >>
    /\ gOutcome = Throw("ClientError")

----------------------------------------------------------------------------
(* Claims about paginate_json, checked under SpecPaginate *)

Answer == Get(pLast)
\* The call went through the whole turn on the last answer: get_json
\* returned its body and the body is an object.
Fetched ==
    /\ IsSome(pLast)
    /\ pPc \in {"pausing", "page", "returned"}
    /\ Answer.content.shape = "object"
OfPage(pg) ==
    LET FromPage(r) == r[1] = pg
    IN  SelectSeq(all_records, FromPage)

\* C12: a response whose status is neither of the retry set nor 401/403 and
\* that has a status outside 2xx, or a body that is not JSON, ends the fetch
\* with an error: the call raises, so nothing is returned and no record of
\* the response reaches a result.
C12_OtherResponseEndsInError ==
    (/\ IsSome(pLast)
     /\ Answer.resp.kind = "http"
     /\ Answer.resp.status \notin retry_status_codes \cup {401, 403}
     /\ (Answer.resp.status \notin 200 .. 299 \/ ~Answer.resp.body.json)) =>
        pPc = "raised"

\* The envelope announces a further page by the rules of the fetcher: its
\* pagination triple has page < ceil(total / limit), or it has no pagination
\* block and the page is full.
AnnouncesMore(ans) ==
    LET pag == ans.content.pagination
    IN  \/ pag = NoBlock /\ ans.content.count >= limit
        \/ /\ {pag.total.kind, pag.limit.kind, pag.page.kind} = {"int"}
           /\ pag.page.v < Ceil(pag.total.v, pag.limit.v)

\* C14: when the server answers page 1 and page 2 with records and page 3
\* with none (and the envelope of page 1 does not announce the end), the
\* call returns the records of page 1 followed by those of page 2; a call
\* that returns without asking for page 2 misses its records.
C14_TwoPagesThenEmpty ==
    (/\ pPc = "returned"
     /\ page <= 3
     /\ OfPage(1) # <<>>
     /\ page = 1 => AnnouncesMore(Answer)
     /\ page >= 2 => OfPage(2) # <<>>
     /\ page = 3 => OfPage(3) = <<>>) =>
        /\ page >= 2
        /\ all_records = OfPage(1) \o OfPage(2)

\* C15: after a page with records, if the envelope has the integers total,
\* limit and page, a further page is requested exactly when
\* page < ceil(total / limit); if it has no pagination block, a further page
\* is requested exactly when the page has at least limit records.
C15_FurtherPageRule ==
    (Fetched /\ Answer.content.count > 0) =>
        LET further == pPc # "returned"
            pag == Answer.content.pagination
        IN  /\ {pag.total.kind, pag.limit.kind, pag.page.kind} = {"int"} =>
                  (further <=> pag.page.v < Ceil(pag.total.v, pag.limit.v))
            /\ pag = NoBlock =>
                  (further <=> Answer.content.count >= limit)

\* A page that get_json returned with status 200 and that holds no record.
EmptyPage(ans) ==
    /\ ans.resp.kind = "http"
    /\ ans.resp.status = 200
    /\ ans.resp.body.json
    /\ ans.content.count = 0

\* C16: the turn that receives an empty page returns: all_records is what it
\* was before the page, whatever the pagination block of the page says, and
\* after the return no further page is requested.
C16_EmptyPageEnds ==
    [][/\ (pPc = "page" /\ IsSome(pLast') /\ EmptyPage(Get(pLast'))) =>
             (pPc' = "returned" /\ all_records' = all_records /\ page' = page)
       /\ pPc = "returned" => UNCHANGED pageVars]_vars

\* The call returned the records of page 1 on an empty page 2 whose
\* pagination block announces four pages.
C16_Witness ==
    /\ pPc = "returned"
    /\ page = 2
    /\ all_records # <<>>
    /\ EmptyPage(Answer)
    /\ Answer.content.pagination =
          [total |-> IntValue(4), limit |-> IntValue(1), page |-> IntValue(2)]

\* all_records is page 1, page 2, ... one after another, every record of a
\* page in the order of its "data" list, no page left out or taken twice.
InRequestOrder ==
    /\ all_records # <<>> => all_records[1] = <<1, 1>>
    /\ \A i \in 1 .. Len(all_records) - 1 :
          LET r == all_records[i]
              q == all_records[i + 1]
          IN  \/ q = <<r[1], r[2] + 1>>
              \/ q = <<r[1] + 1, 1>>
\* The page the loop stands at is the one after the last page it appended.
NextPageIsDue ==
    pPc \in {"page", "pausing"} =>
        page = IF all_records = <<>> THEN 1
               ELSE all_records[Len(all_records)][1] + 1
\* One request: the page number stays (the call is over) or goes up by one
\* (a pause, then the next request), and the records so far stay in front
\* of what the page adds, which is the whole "data" list or nothing.
OnePageAfterAnother ==
    pPc = "page" /\ pPc' # "page" =>
        /\ page' = IF pPc' = "pausing" THEN page + 1 ELSE page
        /\ \/ all_records' = all_records
           \/ all_records' =
                 all_records \o Records(page, Get(pLast').content.count)
        /\ pPc' = "pausing" => all_records' # all_records

\* C32: within one paginate_json call pages are requested one after another
\* as 1, 2, 3, ..., none twice and none skipped, and the list returned is
\* the pages' records concatenated in the order of the requests, every
\* record kept.
C32_PagesInSequence ==
    /\ [](InRequestOrder /\ NextPageIsDue)
    /\ [][OnePageAfterAnother]_vars

\* Three pages of two, two and one records were fetched and returned.
C32_Witness ==
    /\ pPc = "returned"
    /\ page = 3
    /\ all_records = Records(1, 2) \o Records(2, 2) \o Records(3, 1)

\* The result of the task whose paginate_json call is the one in view.
ResultOf(b, k) ==
    run_one_result(b, IF pPc = "raised" THEN "raise" ELSE "return", all_records, k)

\* C38: a result that is not a success carries no data: when the fetch
\* raised, on whatever page and with whatever records of earlier pages in
\* all_records, the result of the task has data = None and record_count = 0
\* and is an error, and no record is handed to the parser and the staging
\* loader.
C38_NoPartialData ==
    pPc \in {"raised", "returned"} =>
        \A b \in Branches, k \in BOOLEAN :
            /\ pPc = "raised" => ~is_success(ResultOf(b, k))
            /\ ~is_success(ResultOf(b, k)) =>
                  /\ ResultOf(b, k).data = None
                  /\ ResultOf(b, k).record_count = 0
                  /\ ResultOf(b, k).status = "error"
                  /\ to_staging(ResultOf(b, k)) = <<>>

\* The request for page 3 failed after two full pages had been fetched.
C38_Witness ==
    /\ pPc = "raised"
    /\ page = 3
    /\ all_records = Records(1, 2) \o Records(2, 2)
    /\ ~is_success(ResultOf(1, TRUE))

----------------------------------------------------------------------------
(* Claims about the history, checked under SpecHistory *)

Stored == Get(history)
RowsAt(df, k) == {i \in 1 .. Len(df) : df[i].id = k}
\* The call in view diffed a snapshot that has rows.
Diffed == hPc = "processed" /\ latest_staging_df # <<>>
\* The rows of the history file the call read that are flagged current.
ActiveBefore ==
    IF IsSome(prev_hist_df)
    THEN {r \in RowsOf(Get(prev_hist_df)) : r.is_current}
    ELSE {}
\* The row a snapshot row t opens at the instant now.
Opened(t, now) ==
    [id |-> t.id, note |-> t.note, status |-> t.status,
     extracted_at |-> t.extracted_at,
     valid_from |-> now, valid_to |-> None, is_current |-> TRUE]

\* C17: whatever snapshots have been processed since there was no history,
\* the stored history has at most one row with is_current = true per key.
C17_OneCurrentPerKey ==
    IsSome(history) =>
        \A k \in Ids :
            Cardinality({i \in RowsAt(Stored, k) : Stored[i].is_current}) <= 1

\* After three snapshots the history holds a closed and a current row for
\* one key and a current row for the other.
C17_Witness ==
    /\ as_of = 3
    /\ IsSome(history)
    /\ \E i, j \in RowsAt(Stored, "K1") :
          ~Stored[i].is_current /\ Stored[j].is_current
    /\ \E i \in RowsAt(Stored, "K2") : Stored[i].is_current

\* C18: in the stored history the rows of a key do not overlap in
\* [valid_from, valid_to), and every closed row ends where another row of the
\* key, its next version, begins: the intervals run without a gap up to the
\* open row.
C18_IntervalsContiguous ==
    IsSome(history) =>
        \A k \in Ids :
            \A i \in RowsAt(Stored, k) :
                /\ IsSome(Stored[i].valid_to) =>
                      /\ Stored[i].valid_from <= Get(Stored[i].valid_to)
                      /\ \E j \in RowsAt(Stored, k) \ {i} :
                            Stored[j].valid_from = Get(Stored[i].valid_to)
                /\ \A j \in RowsAt(Stored, k) \ {i} :
                      \/ /\ IsSome(Stored[i].valid_to)
                         /\ Get(Stored[i].valid_to) <= Stored[j].valid_from
                      \/ /\ IsSome(Stored[j].valid_to)
                         /\ Get(Stored[j].valid_to) <= Stored[i].valid_from

\* A key first seen at instant 2 that changed at instant 3: its version
\* from 2 to 3 is closed and its version from 3 on is open.
C18_Witness ==
    /\ IsSome(history)
    /\ \E i, j \in RowsAt(Stored, "K1") :
          /\ Stored[i].valid_from = 2
          /\ Stored[i].valid_to = Some(3)
          /\ Stored[j].valid_from = 3
          /\ Stored[j].valid_to = None

\* C19: for every key that has an active row and a snapshot row that differ
\* in note or status, the new history holds the active row closed (valid_to
\* = as_of, is_current = false, all else as it was) and, as the only current
\* row of the key, the snapshot row opened at as_of.
C19_ChangedClosedAndReopened ==
    Diffed =>
        \A h \in ActiveBefore, t \in RowsOf(latest_staging_df) :
            (h.id = t.id /\ (h.note # t.note \/ h.status # t.status)) =>
                /\ \E i \in RowsAt(Stored, h.id) :
                      Stored[i] = [h EXCEPT !.valid_to = Some(as_of),
                                            !.is_current = FALSE]
                /\ \E i \in RowsAt(Stored, h.id) :
                      /\ Stored[i] = Opened(t, as_of)
                      /\ \A j \in RowsAt(Stored, h.id) \ {i} :
                            ~Stored[j].is_current

\* C20: every key of the snapshot without an active row, and so every key of
\* the snapshot when there was no history file, has exactly one row with
\* valid_from = as_of in the new history: its snapshot row, open and current.
C20_NewKeyOpened ==
    Diffed =>
        \A t \in RowsOf(latest_staging_df) :
            (\A h \in ActiveBefore : h.id # t.id) =>
                \E i \in RowsAt(Stored, t.id) :
                    /\ Stored[i] = Opened(t, as_of)
                    /\ \A j \in RowsAt(Stored, t.id) \ {i} :
                          Stored[j].valid_from # as_of

\* A snapshot of a known key and a new key applied to an existing history:
\* the new key has its row, opened at the instant of this call.
C20_Witness ==
    /\ Diffed
    /\ IsSome(prev_hist_df)
    /\ \E h \in ActiveBefore : h.id = "K1"
    /\ \A h \in ActiveBefore : h.id # "K2"
    /\ {latest_staging_df[i].id : i \in 1 .. Len(latest_staging_df)} = {"K1", "K2"}
    /\ \E i \in RowsAt(Stored, "K2") : Stored[i].valid_from = as_of

\* The keys of a frame.
KeysOf(df) == {df[i].id : i \in 1 .. Len(df)}

\* C21: for every key whose active row and snapshot row agree in note and
\* status, the new history holds the active row as it was (attributes,
\* extracted_at, valid_from, open valid_to, is_current) and no other row of
\* that key.
C21_UnchangedKeptVerbatim ==
    Diffed =>
        \A h \in ActiveBefore, t \in RowsOf(latest_staging_df) :
            (h.id = t.id /\ h.note = t.note /\ h.status = t.status) =>
                /\ h.valid_to = None /\ h.is_current
                /\ \E i \in RowsAt(Stored, h.id) :
                      /\ Stored[i] = h
                      /\ RowsAt(Stored, h.id) = {i}

\* A snapshot taken later than the active row of K1, with the same note and
\* status, applied together with a changed K2: K1's row is still the one
\* opened earlier.
C21_Witness ==
    /\ Diffed
    /\ \E h \in ActiveBefore, t \in RowsOf(latest_staging_df) :
          /\ h.id = "K1" /\ t.id = "K1"
          /\ h.note = t.note /\ h.status = t.status
          /\ h.extracted_at < t.extracted_at
          /\ h.valid_from < as_of
          /\ \E i \in RowsAt(Stored, "K1") : Stored[i] = h
    /\ \E i \in RowsAt(Stored, "K2") : ~Stored[i].is_current

\* C22: when a snapshot with rows is applied to a history file, every key
\* that has a current row in that file and no row in the snapshot still has
\* that row, as it was and current, in the new history.
C22_RemovedKeyKept ==
    (Diffed /\ IsSome(prev_hist_df)) =>
        \A h \in ActiveBefore :
            h.id \notin KeysOf(latest_staging_df) =>
                \E i \in RowsAt(Stored, h.id) : Stored[i] = h

\* C23: when a snapshot with rows is applied to a history file, every row of
\* that file with is_current = false is in the new history as it was.
C23_ClosedRowsKept ==
    (Diffed /\ IsSome(prev_hist_df)) =>
        \A r \in RowsOf(Get(prev_hist_df)) :
            ~r.is_current => r \in RowsOf(Stored)

\* C24: a call that finds no row in staging leaves the history the next run
\* reads as the call found it, be it no file or a file with closed and
\* current rows.
C24_EmptySnapshotNoOp ==
    (hPc = "processed" /\ latest_staging_df = <<>>) =>
        /\ history = prev_hist_df
        /\ hResult = "skipped"

\* An empty snapshot applied to a history that holds a closed and a current
\* row.
C24_Witness ==
    /\ hPc = "processed"
    /\ latest_staging_df = <<>>
    /\ IsSome(history)
    /\ history = prev_hist_df
    /\ \E i, j \in 1 .. Len(Stored) : ~Stored[i].is_current /\ Stored[j].is_current

\* C25: when the snapshot a run applied is applied again by the next run, at
\* a later as_of, the second run finds no key with an active row and a
\* snapshot row of different hashes, and the history it leaves is the
\* history the first run left.
C25_SameSnapshotTwice ==
    [][(Diffed /\ hPc' = "processed" /\ latest_staging_df' = latest_staging_df) =>
          /\ changed_ids(active_rows(Stored), latest_staging_df') = {}
          /\ history' = history]_vars

\* The rows of the history file the call read, closed ones included.
ReadBefore ==
    IF IsSome(prev_hist_df) THEN RowsOf(Get(prev_hist_df)) ELSE {}

\* C33: the rows a process call closed or opened (the rows of the history
\* it wrote that the history it read did not hold) all carry the instant
\* the processor read when it was built: an open row begins at as_of and a
\* closed row ends at as_of.
C33_OneInstantPerCall ==
    (Diffed /\ IsSome(history)) =>
        \A r \in RowsOf(Stored) \ ReadBefore :
            IF IsSome(r.valid_to)
            THEN r.valid_to = Some(as_of) /\ ~r.is_current
            ELSE r.valid_from = as_of /\ r.is_current

\* The second call closed the version of K1 it found and opened two rows,
\* the next version of K1 and the first of K2, all three at instant 2.
C33_Witness ==
    /\ Diffed
    /\ as_of = 2
    /\ IsSome(history)
    /\ \E r \in RowsOf(Stored) \ ReadBefore :
          r.id = "K1" /\ r.valid_from = 1 /\ r.valid_to = Some(2)
    /\ \E r \in RowsOf(Stored) \ ReadBefore :
          r.id = "K1" /\ r.valid_from = 2 /\ r.valid_to = None
    /\ \E r \in RowsOf(Stored) \ ReadBefore :
          r.id = "K2" /\ r.valid_from = 2 /\ r.valid_to = None

\* C34: a key with an active row and a snapshot row is among the unchanged
\* keys exactly when the two rows agree in note and in status, and among the
\* changed keys exactly when they differ in one of them: equal fingerprints
\* never stand for rows that differ.
C34_ClassifiedByFields ==
    (Diffed /\ IsSome(prev_hist_df)) =>
        LET active == active_rows(Get(prev_hist_df))
        IN  \A h \in RowsOf(active), t \in RowsOf(latest_staging_df) :
                h.id = t.id =>
                    LET same == h.note = t.note /\ h.status = t.status
                    IN  /\ h.id \in unchanged_ids(active, latest_staging_df) <=> same
                        /\ h.id \in changed_ids(active, latest_staging_df) <=> ~same

\* C35: a snapshot record without a primary key is dropped: the stored
\* history has no row with a missing key, and no key is missing among the
\* keys the call matched as unchanged, changed or new. Checked under
\* SpecKeyless.
C35_KeylessDropped ==
    /\ IsSome(history) => \A r \in RowsOf(Stored) : r.id # NaN
    /\ (Diffed /\ IsSome(prev_hist_df)) =>
          LET active == active_rows(Get(prev_hist_df))
          IN  NaN \notin unchanged_ids(active, latest_staging_df)
                          \cup changed_ids(active, latest_staging_df)
                          \cup new_ids(active, latest_staging_df)

\* C40: the snapshot a process call diffs has one row for every key of the
\* staging file and no second one, and that row is a staged row of the key
\* than which none was extracted later: a version staged earlier never
\* stands in for one staged later.
C40_LatestRowPerKey ==
    hPc = "processed" =>
        /\ KeysOf(latest_staging_df) = KeysOf(staging)
        /\ \A k \in KeysOf(staging) :
              Cardinality(RowsAt(latest_staging_df, k)) = 1
        /\ \A t \in RowsOf(latest_staging_df) :
              /\ t \in RowsOf(staging)
              /\ \A r \in RowsOf(staging) :
                    r.id = t.id => r.extracted_at <= t.extracted_at

\* K1 was staged twice, with other values the second time: the snapshot is
\* the later row alone and the history opens K1 with its values.
C40_Witness ==
    /\ hPc = "processed"
    /\ Len(staging) = 2
    /\ staging[1].id = "K1" /\ staging[2].id = "K1"
    /\ staging[1].extracted_at < staging[2].extracted_at
    /\ staging[1].note # staging[2].note
    /\ latest_staging_df = <<staging[2]>>
    /\ IsSome(history)
    /\ \E i \in RowsAt(Stored, "K1") :
          Stored[i].is_current /\ Stored[i].note = staging[2].note

----------------------------------------------------------------------------
(* Claims about the state manager, checked under SpecStore *)

\* C26: a save for one key leaves every other key that a reader of the file
\* found before the call in the file, with the same timestamp, whatever the
\* file was like and whatever reading it met.
C26_SaveChangesOnlyItsKey ==
    [][(smCall'.op = "save" /\ smCall'.n = smCall.n + 1) =>
          \A f \in StoreFields, b \in StoreBranches :
              (<<f, b>> # smCall'.key /\ IsSome(Watermark(f, b))) =>
                  Watermark(f, b)' = Watermark(f, b)]_vars

\* C27: a load that reads the file, for a key whose last save wrote the file
\* with timestamp t, returns the instant of t, whatever saves of other keys
\* came before or after that save.
C27_ReadAfterWrite ==
    (smCall.op = "load" /\ smCall.read = "ok" /\ IsSome(smSaved[smCall.key])) =>
        /\ IsSome(smCall.result)
        /\ Get(smCall.result).aware
        /\ Instant(Get(smCall.result)) = Instant(Get(smSaved[smCall.key]))

----------------------------------------------------------------------------
(* Claims about the booking pipeline, checked under SpecPipeline *)

\* The extraction of every branch failed / of some branch failed while that
\* of another succeeded, as the report's staging section records it.
AllFailed(rep) ==
    \A b \in PipelineBranches : Get(rep.staging[b]).status = "error"
PartlyFailed(rep) ==
    /\ \E b \in PipelineBranches : Get(rep.staging[b]).status = "error"
    /\ \E b \in PipelineBranches : Get(rep.staging[b]).status = "success"
Extracted(rep) == \A b \in PipelineBranches : IsSome(rep.staging[b])

\* C28: of two reports sent, one of a run in which every extraction failed
\* and one of a run in which some succeeded and some failed, the overall
\* status is not the same.
C28_FullFailureDistinguished ==
    \A i, j \in 1 .. Len(outbox) :
        (/\ Extracted(outbox[i]) /\ Extracted(outbox[j])
         /\ AllFailed(outbox[i]) /\ PartlyFailed(outbox[j])) =>
            outbox[i].overall_status # outbox[j].overall_status

\* C29: a turn of the historical loop whose processor found no row in
\* staging raises nothing: the report is not marked FAILED and the pipeline
\* goes on to the next noted branch or to the DWH stage.
C29_EmptySnapshotNotAnError ==
    [][(pipe.pc = "historical" /\ pipe'.snapshot = Some(<<>>)) =>
          /\ report'.overall_status = "SUCCESS"
          /\ ~report'.error
          /\ pipe'.pc \in {"historical", "dwh"}
          /\ pipe'.todo = Tail(pipe.todo)]_vars

----------------------------------------------------------------------------
(* Claims about DimensionExtractor, checked under SpecDimensions *)

\* C37: while a per-branch dimension is fetched for every branch, the
\* fetches in flight at the same time stay below the number of requested
\* branches: some bound smaller than that number holds them back.
C37_DimensionFetchesBounded ==
    (/\ dim.active
     /\ ~dim.shared
     /\ Elems(dim.branch_ids) = Branches) =>
        Cardinality(DimInFlight) < Len(dim.branch_ids)

====
